---- MODULE Spec2Model ----
(***************************************************************************)
(* Model of lib/preprocess_era5inp.py: the constructor of era5_acc_fields. *)
(* A datetime is an integer number of hours since 2019-12-01T00; a         *)
(* timedelta is a number of hours.  A configuration value such as          *)
(* '2020010100' is the integer 2020010100, and the text produced by        *)
(* strftime('%Y%m%d') is the integer YYYYMMDD.                             *)
(***************************************************************************)
EXTENDS Integers, Sequences, FiniteSets, TLC

VARIABLES
    config,         \* the configuration handed to __init__
    grid_lon,       \* longitude coordinate carried by every grib file of the case
    nan_left,       \* TRUE while the one corrupt (NaN) value of the case is still to be read
    pc,             \* position of the constructor
    strt_t, forward, final_t,
    nc_pres_files,  \* self.nc_pres_files
    ds_grib,        \* list of loaded per-file datasets
    curr_t,         \* cursor of the date walk
    slice_start, slice_end,
    comb_ds,        \* concatenated dataset
    drv_fld_dt,
    U, V, W, inp_nfrm,
    checked,        \* paths given to os.path.exists, in order
    loaded,         \* paths given to xr.load_dataset, in order
    error,          \* message of throw_error / raised exception
    prev            \* summary of the previously constructed object (SpecPair)

vars == <<config, grid_lon, nan_left, pc, strt_t, forward, final_t, nc_pres_files,
          ds_grib, curr_t, slice_start, slice_end, comb_ds, drv_fld_dt,
          U, V, W, inp_nfrm, checked, loaded, error, prev>>

\* ------------------------------------------------------------------ bounds
MaxLenUnits == 5     \* integration_length ranges over 0, 6, ..., 6*MaxLenUnits hours
MaxFiles == 4        \* the date walk is cut off after this many files
FramesPerDay == 2    \* time frames in one daily file

\* an unbound name or unset attribute is <<>>, a bound one is <<value>>
Unset == <<>>
Bound(x) == <<x>>

\* ------------------------------------------------------------ the calendar
IsLeap(y) == (y % 4 = 0 /\ y % 100 # 0) \/ y % 400 = 0

DaysInMonth(y, m) ==
    IF m = 2 THEN (IF IsLeap(y) THEN 29 ELSE 28)
    ELSE IF m \in {4, 6, 9, 11} THEN 30 ELSE 31

\* days from 2019-12-01 to the first day of month m of year y
RECURSIVE DaysBeforeMonth(_, _)
DaysBeforeMonth(y, m) ==
    IF y = 2019 /\ m = 12 THEN 0
    ELSE IF m = 1 THEN DaysInMonth(y - 1, 12) + DaysBeforeMonth(y - 1, 12)
    ELSE DaysInMonth(y, m - 1) + DaysBeforeMonth(y, m - 1)

\* datetime.datetime.strptime(s, '%Y%m%d%H')
Strptime(s) ==
    LET y == s \div 1000000
        m == (s \div 10000) % 100
        d == (s \div 100) % 100
        h == s % 100
    IN (DaysBeforeMonth(y, m) + d - 1) * 24 + h

\* the date n days after the first of month m of year y, as YYYYMMDD
RECURSIVE Civil(_, _, _)
Civil(y, m, n) ==
    IF n < DaysInMonth(y, m) THEN y * 10000 + m * 100 + n + 1
    ELSE IF m = 12 THEN Civil(y + 1, 1, n - DaysInMonth(y, m))
    ELSE Civil(y, m + 1, n - DaysInMonth(y, m))

\* t.strftime('%Y%m%d')
Strftime(t) == Civil(2019, 12, t \div 24)

\* datetime.timedelta(hours=h), datetime.timedelta(days=d)
TimedeltaHours(h) == h
TimedeltaDays(d) == 24 * d

\* ------------------------------------------------------------ path and file
\* input_dir+'/'+t.strftime('%Y%m%d')+fn_suffix
PresFileName(t) == [date |-> Strftime(t), suffix |-> "-pl.grib"]

\* mutant: the direction is left out of the final time
FinalTime_IgnoresDirection(s, f, len) == s + TimedeltaHours(len)

\* final_t = strt_t + timedelta(hours = forward * integration_length)
FinalTime(s, f, len) == s + TimedeltaHours(f * len)

\* mutant: the walk steps +1 day whatever the direction
FnDt_AlwaysForward(f) == TimedeltaDays(1)

\* fn_dt = timedelta(days = 1 * forward)
FnDt(f) == TimedeltaDays(1 * f)

\* mutant: the loop compares the timestamps, not their dates
WalkCond_FullTimestamp(c, f) == c # f

\* the test of the while loop
WalkCond(c, f) == Strftime(c) # Strftime(f)
\* ------------------------------------------------------- grib file contents
NaN == <<>>
IsNaN(x) == x = NaN

VarNames == {"u", "v", "w"}

\* hours between two frames of a daily file
FrameStep == 24 \div FramesPerDay

\* the time coordinate of the file of calendar day `date`
FileTimes(date) ==
    [k \in 1..FramesPerDay |-> Strptime(date * 100) + (k - 1) * FrameStep]

\* the sample of variable var at time t in the file's column j; `bad` is either
\* <<>> or the <<frame, variable, column>> of a value that is NaN in this file
Sample(var, t, k, j, bad) ==
    IF bad = <<k, var, j>> THEN NaN ELSE <<var, t, j>>

FileField(var, date, lon, bad) ==
    [k \in 1..FramesPerDay |->
        [j \in 1..Len(lon) |-> Sample(var, FileTimes(date)[k], k, j, bad)]]

\* xr.load_dataset(fn, engine='cfgrib', ...): what the file of path fn holds
LoadDataset(fn, lon, bad) ==
    [time      |-> FileTimes(fn.date),
     longitude |-> lon,
     u |-> FileField("u", fn.date, lon, bad),
     v |-> FileField("v", fn.date, lon, bad),
     w |-> FileField("w", fn.date, lon, bad)]

\* the corruptions one file can show: the files of a case hold at most one NaN
BadChoices(lon, left) ==
    {<<>>} \cup (IF left
                 THEN {<<k, var, j>> : k \in 1..FramesPerDay, var \in VarNames,
                                       j \in 1..Len(lon)}
                 ELSE {})

\* ---------------------------------------------------- orient, concatenate
Reverse(s) == [i \in 1..Len(s) |-> s[Len(s) + 1 - i]]

\* mutant: the backward run does not reverse the loaded datasets
OrientDs_NoReverse(ds, f) == ds

\* if forward == -1: ds_grib = ds_grib[::-1]
OrientDs(ds, f) == IF f = -1 THEN Reverse(ds) ELSE ds

\* mutant: the slice starts at the start time in both branches
SliceStart_IntegrationOrder(f, s, e) == IF f \in {1, -1} THEN Bound(s) ELSE Unset

\* slice_start / slice_end of the two branches; neither branch binds them
SliceStart(f, s, e) == IF f = -1 THEN Bound(e) ELSE IF f = 1 THEN Bound(s) ELSE Unset
SliceEnd(f, s, e)   == IF f = -1 THEN Bound(s) ELSE IF f = 1 THEN Bound(e) ELSE Unset

RECURSIVE Flatten(_)
Flatten(ss) == IF ss = <<>> THEN <<>> ELSE Head(ss) \o Flatten(Tail(ss))

\* xr.concat(ds_grib, 'time')
Concat(dss) ==
    [time      |-> Flatten([i \in 1..Len(dss) |-> dss[i].time]),
     longitude |-> dss[1].longitude,
     u |-> Flatten([i \in 1..Len(dss) |-> dss[i].u]),
     v |-> Flatten([i \in 1..Len(dss) |-> dss[i].v]),
     w |-> Flatten([i \in 1..Len(dss) |-> dss[i].w])]

\* ------------------------------------------------- longitude normalisation
SeqMin(s) == CHOOSE x \in {s[i] : i \in 1..Len(s)} : \A i \in 1..Len(s) : x <= s[i]

\* xr.where(lon < 0, lon + 360, lon)
AdjustLon(lon) == [i \in 1..Len(lon) |-> IF lon[i] < 0 THEN lon[i] + 360 ELSE lon[i]]

\* the column of label x in the index idx
ColumnOf(idx, x) == CHOOSE i \in 1..Len(idx) : idx[i] = x

\* mutant: the coordinate is sorted but the data columns stay where they were
SelColumns_KeepOrder(field, idx, labels) == field

\* .sel(longitude_adjusted = labels) on one variable
SelColumns(field, idx, labels) ==
    [k \in 1..Len(field) |->
        [c \in 1..Len(labels) |-> field[k][ColumnOf(idx, labels[c])]]]

NormalizeLon(ds) ==
    IF SeqMin(ds.longitude) < 0
    THEN LET adj    == AdjustLon(ds.longitude)
             labels == SortSeq(adj, LAMBDA a, b : a < b)
         IN [time      |-> ds.time,
             longitude |-> labels,
             u |-> SelColumns(ds.u, adj, labels),
             v |-> SelColumns(ds.v, adj, labels),
             w |-> SelColumns(ds.w, adj, labels)]
    ELSE ds

\* ------------------------------------------------------ slice and validate
\* rows of a time index that the label slice a:b keeps
InSlice(t, a, b) == a <= t /\ t <= b

Kept(time, a, b) == {i \in 1..Len(time) : InSlice(time[i], a, b)}

\* the k-th kept row
KeptRow(time, a, b, k) ==
    CHOOSE i \in Kept(time, a, b) :
        Cardinality({j \in Kept(time, a, b) : j <= i}) = k

\* comb_ds[var].loc[slice_start:slice_end, :, :]
LocSlice(ds, var, a, b) ==
    LET n == Cardinality(Kept(ds.time, a, b))
    IN [time      |-> [k \in 1..n |-> ds.time[KeptRow(ds.time, a, b, k)]],
        longitude |-> ds.longitude,
        data      |-> [k \in 1..n |-> ds[var][KeptRow(ds.time, a, b, k)]]]

\* np.any(np.isnan(arr))
AnyNaN(arr) ==
    \E k \in 1..Len(arr.data) : \E j \in 1..Len(arr.data[k]) : IsNaN(arr.data[k][j])

\* (comb_ds.time[1] - comb_ds.time[0]) / np.timedelta64(1,'s')
DrvFldDt(ds) == (ds.time[2] - ds.time[1]) * 3600

\* ------------------------------------------------------------------ inputs
StartYmdh == {2020010100, 2020010112, 2020022800, 2020022818, 2020022823,
              2020030100, 2020030118}
Lengths == {6 * k : k \in 0..MaxLenUnits}
LonCoords == {<<0, 180>>, <<-180, 0>>, <<-180, -90>>}

Configs ==
    [start_ymdh : StartYmdh, forward_option : {1, -1, 0, 2, -2},
     integration_length : Lengths, boundary_check : BOOLEAN]

\* configurations of the runs that are compared pairwise
PairConfigs ==
    [start_ymdh : StartYmdh, forward_option : {1, -1},
     integration_length : Lengths, boundary_check : {FALSE}]

\* the object before the body of __init__ has run
Fresh ==
    /\ pc = "init"
    /\ strt_t = 0 /\ forward = 0 /\ final_t = 0 /\ curr_t = 0
    /\ nc_pres_files = <<>> /\ ds_grib = <<>>
    /\ slice_start = Unset /\ slice_end = Unset
    /\ comb_ds = Unset /\ drv_fld_dt = Unset
    /\ U = Unset /\ V = Unset /\ W = Unset /\ inp_nfrm = Unset
    /\ checked = <<>> /\ loaded = <<>> /\ error = <<>>

Init ==
    /\ config \in Configs
    /\ grid_lon \in LonCoords
    /\ nan_left = TRUE
    /\ prev = Unset
    /\ Fresh

InitPair ==
    /\ config \in PairConfigs
    /\ grid_lon \in LonCoords
    /\ nan_left = FALSE
    /\ prev = Unset
    /\ Fresh

\* ---------------------------------------------------------- error reporting
\* utils.throw_error(msg): log the message and end the run
ThrowError(msg) == pc' = "fatal" /\ error' = msg

\* an uncaught NameError / UnboundLocalError ends the run
RaiseNameError(name) == pc' = "crash" /\ error' = <<"NameError", name>>

CannotLocate(fn) == <<"cannot locate", fn>>

\* ------------------------------------------------------------------ actions
\* lines 73-81: parse the configuration, name the first file
Configure ==
    /\ pc = "init"
    /\ strt_t' = Strptime(config.start_ymdh)
    /\ forward' = config.forward_option
    /\ final_t' = FinalTime(strt_t', forward', config.integration_length)
    /\ nc_pres_files' = <<PresFileName(strt_t')>>
    /\ pc' = "first"
    /\ UNCHANGED <<config, grid_lon, nan_left, ds_grib, curr_t, slice_start, slice_end,
                   comb_ds, drv_fld_dt, U, V, W, inp_nfrm, checked, loaded, error, prev>>

\* lines 84-92: check and load the first file, set up the walk
ReadFirst ==
    /\ pc = "first"
    /\ LET fn == PresFileName(strt_t) IN
       \E exists \in BOOLEAN :
          /\ checked' = Append(checked, fn)
          /\ IF ~exists
             THEN /\ ThrowError(CannotLocate(fn))
                  /\ UNCHANGED <<ds_grib, loaded, curr_t, nan_left>>
             ELSE \E bad \in BadChoices(grid_lon, nan_left) :
                  /\ ds_grib' = <<LoadDataset(fn, grid_lon, bad)>>
                  /\ loaded' = Append(loaded, fn)
                  /\ nan_left' = (nan_left /\ bad = <<>>)
                  /\ curr_t' = strt_t
                  /\ pc' = "walk"
                  /\ UNCHANGED error
    /\ UNCHANGED <<config, grid_lon, strt_t, forward, final_t, nc_pres_files,
                   slice_start, slice_end, comb_ds, drv_fld_dt, U, V, W, inp_nfrm, prev>>

\* mutant: a missing file is reported and the walk goes on
ReadNext_SkipMissing ==
    /\ pc = "walk"
    /\ WalkCond(curr_t, final_t)
    /\ Len(nc_pres_files) < MaxFiles
    /\ curr_t' = curr_t + FnDt(forward)
    /\ LET fn == PresFileName(curr_t') IN
       \E exists \in BOOLEAN :
          /\ checked' = Append(checked, fn)
          /\ IF ~exists
             THEN /\ error' = CannotLocate(fn)
                  /\ UNCHANGED <<pc, nc_pres_files, ds_grib, loaded, nan_left>>
             ELSE \E bad \in BadChoices(grid_lon, nan_left) :
                  /\ nc_pres_files' = Append(nc_pres_files, fn)
                  /\ ds_grib' = Append(ds_grib, LoadDataset(fn, grid_lon, bad))
                  /\ loaded' = Append(loaded, fn)
                  /\ nan_left' = (nan_left /\ bad = <<>>)
                  /\ UNCHANGED <<pc, error>>
    /\ UNCHANGED <<config, grid_lon, strt_t, forward, final_t,
                   slice_start, slice_end, comb_ds, drv_fld_dt, U, V, W, inp_nfrm, prev>>

\* lines 93-101: one iteration of the while loop
ReadNext ==
    /\ pc = "walk"
    /\ WalkCond(curr_t, final_t)
    /\ Len(nc_pres_files) < MaxFiles
    /\ curr_t' = curr_t + FnDt(forward)
    /\ LET fn == PresFileName(curr_t') IN
       \E exists \in BOOLEAN :
          /\ checked' = Append(checked, fn)
          /\ IF ~exists
             THEN /\ ThrowError(CannotLocate(fn))
                  /\ UNCHANGED <<nc_pres_files, ds_grib, loaded, nan_left>>
             ELSE \E bad \in BadChoices(grid_lon, nan_left) :
                  /\ nc_pres_files' = Append(nc_pres_files, fn)
                  /\ ds_grib' = Append(ds_grib, LoadDataset(fn, grid_lon, bad))
                  /\ loaded' = Append(loaded, fn)
                  /\ nan_left' = (nan_left /\ bad = <<>>)
                  /\ UNCHANGED <<pc, error>>
    /\ UNCHANGED <<config, grid_lon, strt_t, forward, final_t,
                   slice_start, slice_end, comb_ds, drv_fld_dt, U, V, W, inp_nfrm, prev>>

\* lines 93, 103-114: the loop ends; orient the datasets and concatenate them
Orient ==
    /\ pc = "walk"
    /\ ~WalkCond(curr_t, final_t)
    /\ ds_grib' = OrientDs(ds_grib, forward)
    /\ slice_start' = SliceStart(forward, strt_t, final_t)
    /\ slice_end' = SliceEnd(forward, strt_t, final_t)
    /\ comb_ds' = Concat(ds_grib')
    /\ pc' = "longitude"
    /\ UNCHANGED <<config, grid_lon, nan_left, strt_t, forward, final_t, nc_pres_files,
                   curr_t, drv_fld_dt, U, V, W, inp_nfrm, checked, loaded, error, prev>>

\* lines 116-131
Normalize ==
    /\ pc = "longitude"
    /\ comb_ds' = NormalizeLon(comb_ds)
    /\ pc' = "slice"
    /\ UNCHANGED <<config, grid_lon, nan_left, strt_t, forward, final_t, nc_pres_files,
                   ds_grib, curr_t, slice_start, slice_end, drv_fld_dt, U, V, W,
                   inp_nfrm, checked, loaded, error, prev>>

\* lines 133-147: sampling interval, slice, NaN check, coordinates, frame count
SliceFields ==
    /\ pc = "slice"
    /\ drv_fld_dt' = Bound(DrvFldDt(comb_ds))
    /\ IF slice_start = Unset \/ slice_end = Unset
       THEN /\ RaiseNameError("slice_start")
            /\ UNCHANGED <<U, V, W, inp_nfrm>>
       ELSE /\ U' = LocSlice(comb_ds, "u", slice_start[1], slice_end[1])
            /\ V' = LocSlice(comb_ds, "v", slice_start[1], slice_end[1])
            /\ W' = LocSlice(comb_ds, "w", slice_start[1], slice_end[1])
            /\ IF AnyNaN(U') \/ AnyNaN(V') \/ AnyNaN(W')
               THEN /\ ThrowError(<<"found NAN in combined data set">>)
                    /\ UNCHANGED inp_nfrm
               ELSE /\ inp_nfrm' = Bound(Len(U'.time))
                    /\ pc' = "boundary"
                    /\ UNCHANGED error
    /\ UNCHANGED <<config, grid_lon, nan_left, strt_t, forward, final_t, nc_pres_files,
                   ds_grib, curr_t, slice_start, slice_end, comb_ds, checked, loaded, prev>>

\* lines 149-156: the optional surface file, then the success log
BoundaryCheck ==
    /\ pc = "boundary"
    /\ IF config.boundary_check
       THEN RaiseNameError("fn_timestamp")
       ELSE pc' = "done" /\ UNCHANGED error
    /\ UNCHANGED <<config, grid_lon, nan_left, strt_t, forward, final_t, nc_pres_files,
                   ds_grib, curr_t, slice_start, slice_end, comb_ds, drv_fld_dt,
                   U, V, W, inp_nfrm, checked, loaded>>
    /\ UNCHANGED prev

Next ==
    \/ Configure
    \/ ReadFirst
    \/ ReadNext
    \/ Orient
    \/ Normalize
    \/ SliceFields
    \/ BoundaryCheck

Spec == Init /\ [][Next]_vars

FairSpec == Spec /\ WF_vars(Next)

\* a caller constructs a second object after a first one succeeded, and keeps
\* what the first one held
Reconstruct ==
    /\ pc = "done"
    /\ prev' = Bound([forward       |-> forward,
                      strt_date     |-> Strftime(strt_t),
                      final_date    |-> Strftime(final_t),
                      nc_pres_files |-> nc_pres_files,
                      order         |-> [i \in 1..Len(ds_grib) |-> Strftime(ds_grib[i].time[1])],
                      time          |-> comb_ds.time])
    /\ config' \in PairConfigs
    /\ pc' = "init"
    /\ strt_t' = 0 /\ forward' = 0 /\ final_t' = 0 /\ curr_t' = 0
    /\ nc_pres_files' = <<>> /\ ds_grib' = <<>>
    /\ slice_start' = Unset /\ slice_end' = Unset
    /\ comb_ds' = Unset /\ drv_fld_dt' = Unset
    /\ U' = Unset /\ V' = Unset /\ W' = Unset /\ inp_nfrm' = Unset
    /\ checked' = <<>> /\ loaded' = <<>> /\ error' = <<>>
    /\ UNCHANGED <<grid_lon, nan_left>>

NextPair == Next \/ Reconstruct

SpecPair == InitPair /\ [][NextPair]_vars

\* ------------------------------------------------------ terms of the claims
ValidDirection == config.forward_option \in {1, -1}

NanMessage == <<"found NAN in combined data set">>

\* the date walk has ended and every file it asked for was there
WalkDone ==
    \/ pc \in {"longitude", "slice", "boundary", "done", "crash"}
    \/ pc = "fatal" /\ error = NanMessage

\* the slicing step has run
Sliced ==
    \/ pc \in {"boundary", "done"}
    \/ pc = "fatal" /\ error = NanMessage
    \/ pc = "crash" /\ error = <<"NameError", "fn_timestamp">>

Abs(x) == IF x < 0 THEN -x ELSE x
CeilDiv(a, b) == (a + b - 1) \div b

\* day number of a time, and of the date in a path, without the calendar text
DayOf(t) == t \div 24
FileDay(fn) == DayOf(Strptime(fn.date * 100))
FileDates(files) == [i \in 1..Len(files) |-> files[i].date]

StartHour == config.start_ymdh % 100
Length == config.integration_length

\* midnights between the start hour and the final hour, counted in hours only
DaysTouched == Abs((StartHour + config.forward_option * Length) \div 24) + 1

\* C1 (as stated): the file list has ceil(integration_length / 24) + 1 entries
\* once discovery has ended, for forward and backward runs alike.
C1_CeilCount ==
    (ValidDirection /\ WalkDone) => Len(nc_pres_files) = CeilDiv(Length, 24) + 1

\* C1 (amended): for a valid direction the file list never has more than
\* |floor((start_hour + direction * integration_length) / 24)| + 1 entries, has
\* exactly that many once discovery has ended, and that number lies between
\* floor(integration_length / 24) + 1 and ceil(integration_length / 24) + 1.
C1_DaysTouchedCount ==
    (ValidDirection /\ pc # "init") =>
        /\ Len(nc_pres_files) <= DaysTouched
        /\ WalkDone => Len(nc_pres_files) = DaysTouched
        /\ Length \div 24 + 1 <= DaysTouched
        /\ DaysTouched <= CeilDiv(Length, 24) + 1

\* the spec's own example: start 2020-01-01T00, forward, 30 hours, two files
C1_Witness ==
    /\ WalkDone
    /\ config.start_ymdh = 2020010100 /\ config.forward_option = 1 /\ Length = 30
    /\ Len(nc_pres_files) = 2
    /\ CeilDiv(Length, 24) + 1 = 3

\* C2: with a valid direction and every file present, nc_pres_files holds one
\* path per calendar day from the start date to the final date: the first is the
\* start date's file, consecutive entries are one day apart in the direction of
\* travel, the last is the final date's file; 2020-01-01T00 with 30 h gives
\* 20200101, 20200102 forward and 20200101, 20191231, 20191230 backward.
C2_OnePathPerDay ==
    (ValidDirection /\ pc # "init") =>
        /\ nc_pres_files[1] = [date |-> config.start_ymdh \div 100, suffix |-> "-pl.grib"]
        /\ \A i \in 1..Len(nc_pres_files) - 1 :
              FileDay(nc_pres_files[i + 1]) = FileDay(nc_pres_files[i]) + config.forward_option
        /\ \A i \in 1..Len(nc_pres_files) : nc_pres_files[i].suffix = "-pl.grib"
        /\ WalkDone =>
              /\ FileDay(nc_pres_files[Len(nc_pres_files)]) = DayOf(final_t)
              /\ final_t = strt_t + config.forward_option * Length
              /\ loaded = nc_pres_files
        /\ (WalkDone /\ config.start_ymdh = 2020010100 /\ Length = 30) =>
              FileDates(nc_pres_files) =
                  IF config.forward_option = 1 THEN <<20200101, 20200102>>
                  ELSE <<20200101, 20191231, 20191230>>

C2_Witness ==
    /\ pc = "done"
    /\ config.start_ymdh = 2020030100 /\ config.forward_option = -1 /\ Length = 30
    /\ FileDates(nc_pres_files) = <<20200301, 20200229, 20200228>>

\* ---------------------------------------------------------------------- C3
StrictlyIncreasing(s) == \A i \in 1..Len(s) - 1 : s[i] < s[i + 1]

\* the calendar dates of the datasets in the order they are handed to xr.concat
ConcatOrder == [i \in 1..Len(ds_grib) |-> Strftime(ds_grib[i].time[1])]

DatesAscending(dates) ==
    \A i \in 1..Len(dates) - 1 : Strptime(dates[i] * 100) < Strptime(dates[i + 1] * 100)

Range(s) == {s[i] : i \in 1..Len(s)}

\* the run under construction covers the calendar span of the earlier run p,
\* travelled the other way
MirrorOf(p) ==
    /\ p.forward = -forward
    /\ p.strt_date = Strftime(final_t)
    /\ p.final_date = Strftime(strt_t)

\* C3: a forward and a backward run over the same calendar span discover the
\* same set of paths, one in the reverse order of the other; in each run the
\* datasets handed to concatenation are in ascending date order and the combined
\* time coordinate is strictly increasing.
C3_MirroredRuns ==
    /\ WalkDone =>
          /\ DatesAscending(ConcatOrder)
          /\ StrictlyIncreasing(comb_ds.time)
    /\ (WalkDone /\ prev # Unset) =>
          /\ DatesAscending(prev[1].order)
          /\ StrictlyIncreasing(prev[1].time)
          /\ MirrorOf(prev[1]) =>
                /\ Range(nc_pres_files) = Range(prev[1].nc_pres_files)
                /\ nc_pres_files = Reverse(prev[1].nc_pres_files)
                /\ ConcatOrder = prev[1].order
                /\ comb_ds.time = prev[1].time

C3_Witness ==
    /\ pc = "done" /\ prev # Unset
    /\ forward = -1 /\ MirrorOf(prev[1])
    /\ FileDates(nc_pres_files) = <<20200301, 20200229, 20200228>>
    /\ FileDates(prev[1].nc_pres_files) = <<20200228, 20200229, 20200301>>
    /\ ConcatOrder = <<20200228, 20200229, 20200301>>

\* ---------------------------------------------------------------------- C4
MissingReported == error # <<>> /\ error[1] = "cannot locate"

\* C4: once a file is found missing the run is over, the error names that path,
\* it is the last path that was checked and the next one of the walk, every
\* path checked before it was loaded, it was not loaded itself, and nothing was
\* concatenated, sliced or produced.
C4_AbortAtFirstMissing ==
    MissingReported =>
        /\ pc = "fatal"
        /\ error[2] = checked[Len(checked)]
        /\ FileDay(error[2]) = DayOf(strt_t) + (Len(checked) - 1) * forward
        /\ loaded = SubSeq(checked, 1, Len(checked) - 1)
        /\ error[2] \notin Range(loaded)
        /\ Len(ds_grib) = Len(loaded)
        /\ comb_ds = Unset /\ slice_start = Unset /\ slice_end = Unset
        /\ U = Unset /\ V = Unset /\ W = Unset /\ inp_nfrm = Unset

C4_Witness ==
    /\ pc = "fatal" /\ MissingReported
    /\ config.start_ymdh = 2020010100 /\ config.forward_option = -1
    /\ FileDates(checked) = <<20200101, 20191231>>
    /\ FileDates(loaded) = <<20200101>>
    /\ error[2].date = 20191231

\* ---------------------------------------------------------------------- C5
WindowLo == IF strt_t <= final_t THEN strt_t ELSE final_t
WindowHi == IF strt_t <= final_t THEN final_t ELSE strt_t

\* some value of u, v or w that the files hold inside the window is NaN
NaNInWindow ==
    \E i \in 1..Len(ds_grib) : \E k \in 1..Len(ds_grib[i].time) :
        /\ WindowLo <= ds_grib[i].time[k] /\ ds_grib[i].time[k] <= WindowHi
        /\ \E var \in VarNames : \E j \in 1..Len(grid_lon) : IsNaN(ds_grib[i][var][k][j])

\* C5: after slicing, construction fails exactly when a value inside the window
\* is NaN; without such a value it succeeds.
C5_FailsIffNaNInWindow ==
    (ValidDirection /\ Sliced) => ((pc \in {"fatal", "crash"}) <=> NaNInWindow)

\* the NaN test taken alone: throw_error is called exactly for a NaN in the window
NanCheckExact ==
    (ValidDirection /\ Sliced) => ((pc = "fatal") <=> NaNInWindow)

\* ---------------------------------------------------------------------- C6
Normalized ==
    \/ pc \in {"slice", "boundary", "done", "crash"}
    \/ pc = "fatal" /\ error = NanMessage

AllWithin(lon, a, b) == \A i \in 1..Len(lon) : a <= lon[i] /\ lon[i] < b

Bijections(n) ==
    {p \in [1..n -> 1..n] : \A a, b \in 1..n : a # b => p[a] # p[b]}

\* ds is raw with its longitude columns rearranged by p and labelled mod 360
PermutedBy(p, raw, ds) ==
    /\ ds.time = raw.time
    /\ \A c \in 1..Len(raw.longitude) :
          /\ ds.longitude[c] = raw.longitude[p[c]] % 360
          /\ \A var \in VarNames : \A k \in 1..Len(raw.time) :
                ds[var][k][c] = raw[var][k][p[c]]

\* C6: longitude normalisation is idempotent; a coordinate within [0,360) is
\* left as it is; a coordinate within [-180,180) with a negative value comes out
\* within [0,360), ascending, with the data columns permuted as the coordinate.
C6_LongitudeNormalised ==
    Normalized =>
        LET raw == Concat(ds_grib) IN
        /\ NormalizeLon(comb_ds) = comb_ds
        /\ AllWithin(grid_lon, 0, 360) => comb_ds = raw
        /\ (AllWithin(grid_lon, -180, 180) /\ ~AllWithin(grid_lon, 0, 360)) =>
              /\ AllWithin(comb_ds.longitude, 0, 360)
              /\ StrictlyIncreasing(comb_ds.longitude)
              /\ Len(comb_ds.longitude) = Len(raw.longitude)
              /\ \E p \in Bijections(Len(raw.longitude)) : PermutedBy(p, raw, comb_ds)

C6_Witness ==
    /\ pc = "done"
    /\ grid_lon = <<-180, 0>>
    /\ comb_ds.longitude = <<0, 180>>
    /\ comb_ds.u[1] = << <<"u", comb_ds.time[1], 2>>, <<"u", comb_ds.time[1], 1>> >>

\* ---------------------------------------------------------------------- C7
InWindow(t) == WindowLo <= t /\ t <= WindowHi

\* arr holds exactly the frames of the combined series inside the window
ExactlyWindow(arr, var) ==
    /\ arr.time = SelectSeq(comb_ds.time, InWindow)
    /\ Len(arr.data) = Len(arr.time)
    /\ \A k \in 1..Len(arr.time) :
          \E i \in 1..Len(comb_ds.time) :
              comb_ds.time[i] = arr.time[k] /\ comb_ds[var][i] = arr.data[k]
    /\ \A i \in 1..Len(comb_ds.time) :
          comb_ds.time[i] \in {strt_t, final_t} => comb_ds.time[i] \in Range(arr.time)

\* C7: in a run that passes the slice step the slice bounds are the earlier and
\* the later of start_time and final_time, U, V and W hold exactly the frames
\* with slice_start <= t <= slice_end, endpoints included, and inp_nfrm counts them.
C7_InclusiveChronologicalSlice ==
    (ValidDirection /\ pc \in {"boundary", "done"}) =>
        /\ slice_start = Bound(WindowLo)
        /\ slice_end = Bound(WindowHi)
        /\ ExactlyWindow(U, "u") /\ ExactlyWindow(V, "v") /\ ExactlyWindow(W, "w")
        /\ inp_nfrm = Bound(Cardinality({i \in 1..Len(comb_ds.time) : InWindow(comb_ds.time[i])}))

C7_Witness ==
    /\ pc = "done" /\ forward = -1
    /\ config.start_ymdh = 2020030100 /\ Length = 24
    /\ inp_nfrm = Bound(3)
    /\ U.time[1] = final_t /\ U.time[3] = strt_t
    /\ Len(comb_ds.time) = 4

\* ---------------------------------------------------------------------- C8
\* C8: with boundary_check set and valid pressure-level data the construction
\* still completes: it never ends in an uncaught exception.
C8_BoundaryCheckCompletes ==
    (ValidDirection /\ config.boundary_check) => pc # "crash"

\* ---------------------------------------------------------------------- C9
\* C9: a direction other than +1 and -1 is rejected before any file existence
\* check or file load.
C9_BadDirectionRejectedBeforeIO ==
    ~ValidDirection => (checked = <<>> /\ loaded = <<>>)

\* --------------------------------------------------------------------- C10
Steps == Len(nc_pres_files) - 1
DaysApart == Abs(DayOf(final_t) - DayOf(strt_t))

\* the cursor has been set up: in the loop, past it, or stopped inside it
CursorSet == pc = "walk" \/ WalkDone \/ (pc = "fatal" /\ Len(checked) > 1)

WalkInvariant ==
    (ValidDirection /\ CursorSet) =>
        /\ Abs(DayOf(final_t) - DayOf(curr_t)) + Abs(DayOf(curr_t) - DayOf(strt_t)) = DaysApart
        /\ Steps <= DaysApart
        /\ pc = "walk" =>
              /\ Abs(DayOf(curr_t) - DayOf(strt_t)) = Steps
              /\ Steps < DaysApart => (WalkCond(curr_t, final_t) /\ Len(nc_pres_files) < MaxFiles)
        /\ WalkDone =>
              /\ Steps = DaysApart
              /\ DayOf(curr_t) = DayOf(final_t)
              /\ Len(checked) = DaysApart + 1
              /\ Length = 0 => (Steps = 0 /\ FileDates(nc_pres_files) = <<config.start_ymdh \div 100>>)

\* C10: for a valid direction the walk ends: the cursor is never beyond the
\* final date, it is on the final date after exactly |date(final) - date(start)|
\* steps (none for a length of 0), and a run that is in the loop leaves it.
C10_WalkTerminates ==
    /\ []WalkInvariant
    /\ (ValidDirection /\ pc = "walk") ~> (pc # "walk")

C10_Witness ==
    /\ pc = "done" /\ forward = -1
    /\ Steps = 2 /\ DaysApart = 2
    /\ Strftime(curr_t) = Strftime(final_t)
====
